---- MODULE Spec2Model ----
(***************************************************************************)
(* The local RAG index of Luma (luma_mod/rag): the FAISS vector file and   *)
(* the JSONL metadata sidecar on disk, the RAGIndex objects that write     *)
(* them (indexer.py), the watcher handlers that call index_file            *)
(* (watcher.py) and the query engine that reads them (query.py).           *)
(*                                                                         *)
(* Representation.                                                         *)
(*  - A path is <<folder, stem, ext>>: os.path.basename(os.path.dirname)   *)
(*    is the first component, os.path.splitext(...)[1] the last.           *)
(*    str.startswith on paths is the prefix relation on components.        *)
(*  - A file on disk is [exists, chunks, mtime]; chunks is the list of     *)
(*    (page, chunk) pairs that load_text_from_file + iter_sliding_windows  *)
(*    yield for it (indexer.py:263-277), page 0 standing for None.         *)
(*  - sha1 is taken collision free: a digest is the tuple it hashes.       *)
(*  - A vector is a pair of integers, the score its inner product.         *)
(*  - None/"" arguments of search are "" (folder), <<>> (time bounds) and  *)
(*    {} (prefilter_paths): the code tests all of them by truthiness.      *)
(*  - A time is a whole number of years, so that the order of two times    *)
(*    is the same in every time zone; an ISO string is <<"iso", t>> when   *)
(*    it carries no UTC offset and <<"iso", t, offset>> when it does.      *)
(***************************************************************************)
EXTENDS Integers, Sequences, FiniteSets, TLC

VARIABLES
    fs,         \* the user's files: path -> [exists, chunks, mtime]
    faissFile,  \* FAISS_PATH: [state: "absent" | "ok" | "corrupt", rows]
    metaFile,   \* META_PATH: [exists, lines]
    inst,       \* the RAGIndex objects: name -> [index, rows, size]
    last,       \* the index_file call that has just returned, if one has
    status,     \* service._STATUS: [folders, chunks, last_update]
    now,        \* time.time(), in ticks
    handlerLast,\* _Handler._last: path -> time of the last event let through
    log,        \* the watcher events handled so far: [path, at, called]
    proc,       \* the index_file call in progress, step by step
    tmpMeta,    \* META_PATH + ".tmp": [exists, lines]
    copied      \* history: how many lines of tmpMeta a copy has written already

\* the service's status, the watcher's handler and clock, the call in progress
newVars == <<status, now, handlerLast, log, proc, tmpMeta, copied>>

vars == <<fs, faissFile, metaFile, inst, last, newVars>>

----------------------------------------------------------------------------
(* Bounds of the model *)

\* most rows of the vector store and lines of the sidecar under Spec
MaxRows == 3
\* the same under SpecWatch, SpecQuery and SpecDeep
WatchRows == 2
QueryRows == 2
DeepRows == 6
\* search is asked for k in 1..MaxK
MaxK == 2

----------------------------------------------------------------------------
(* The universe: paths, texts, vectors *)

PathA == <<"docs", "a", ".txt">>
PathB == <<"work", "b", ".md">>
PathL == <<"docs", "n", ".log">>
Paths == {PathA, PathB, PathL}
Instances == {"service", "watcher"}

SUPPORTED_EXTS == {".pdf", ".docx", ".pptx", ".txt", ".md", ".markdown", ".html", ".htm"}
EXCLUDES == {"node_modules", "__pycache__", ".git"}
EXCLUDE_SUFFIXES == {".log", ".tmp", ".run"}

Folder(path) == path[1]
Ext(path) == path[3]

\* " ".join(text.split()): runs of whitespace collapse to one blank
Normalize(text) == IF text = "a  b" THEN "a b" ELSE text

sha1_of_text(text, path, page) == <<Normalize(text), path, page>>

\* model.encode + _normalize: one vector per text
Embed(text) ==
    CASE text = "a b"  -> <<3, 0>>
      [] text = "a  b" -> <<2, 1>>
      [] OTHER         -> <<0, 3>>

\* datetime.fromtimestamp(st.st_mtime).isoformat(): the ISO string of a naive
\* datetime, one without a UTC offset
IsoFormat(t) == <<"iso", t>>
\* an ISO string with a UTC offset, as a caller may hand to search
IsoFormatTz(t) == <<"iso", t, "+00:00">>
\* datetime.fromisoformat(s) succeeds; FromIso is the time it gives and IsAware
\* whether that datetime carries an offset
IsIso(s) == Len(s) \in {2, 3} /\ s[1] = "iso"
FromIso(s) == s[2]
IsAware(s) == Len(s) = 3
\* a < or > of two datetimes raises TypeError when one is naive and the other
\* aware
Comparable(s, t) == IsAware(s) = IsAware(t)

NoFile == [exists |-> FALSE, chunks |-> <<>>, mtime |-> 0]

Chunk(page, text) == [page |-> page, text |-> text]

\* the versions of a text or markdown file the user saves: an empty one, one
\* holding a chunk and its copy with other whitespace, a later one holding
\* two different chunks
Versions ==
    { [exists |-> TRUE, chunks |-> <<>>, mtime |-> 1],
      [exists |-> TRUE, chunks |-> <<Chunk(0, "a b"), Chunk(0, "a  b")>>, mtime |-> 1],
      [exists |-> TRUE, chunks |-> <<Chunk(0, "c"), Chunk(0, "a b")>>, mtime |-> 2] }

Times == {v.mtime : v \in Versions}

\* the files the user edits; PathL is a log file that stays as it is
UserPaths == {PathA, PathB}
LogFile == [exists |-> TRUE, chunks |-> <<Chunk(0, "c")>>, mtime |-> 1]

----------------------------------------------------------------------------
(* indexer.py: RAGIndex *)

MetaEntry(id, path, folder, mtime_iso, page, text_hash, text) ==
    [id |-> id, path |-> path, folder |-> folder, mtime_iso |-> mtime_iso,
     page |-> page, text_hash |-> text_hash, text |-> text, deleted |-> FALSE]

\* RAGIndex.__init__: index None (rows not loaded), model None, size 0
NewRAGIndex == [index |-> FALSE, rows |-> <<>>, size |-> 0]

\* RAGIndex._lazy_index: the rows this object works on from now on
LazyIndexRows(self, faiss) ==
    IF self.index THEN self.rows
    ELSE IF faiss.state = "ok" THEN faiss.rows
    ELSE <<>>

\* a rewrite that copies the lines and flips no flag
SoftDeleteLines_KeepFlags(lines, path) == lines

\* RAGIndex._soft_delete_path: the rewritten lines
SoftDeleteLines(lines, path) ==
    [i \in DOMAIN lines |->
        IF lines[i].path = path /\ ~lines[i].deleted
        THEN [lines[i] EXCEPT !.deleted = TRUE]
        ELSE lines[i]]

\* a count that forgets "and not deleted"
SoftDeleteCount_AllOfPath(lines, path) ==
    Cardinality({i \in DOMAIN lines : lines[i].path = path})

\* RAGIndex._soft_delete_path: the count it returns
SoftDeleteCount(lines, path) ==
    Cardinality({i \in DOMAIN lines : lines[i].path = path /\ ~lines[i].deleted})

\* RAGIndex._soft_delete_path on the sidecar file
SoftDeletePath(meta, path) ==
    IF ~meta.exists THEN [meta |-> meta, changed |-> 0]
    ELSE [meta |-> [meta EXCEPT !.lines = SoftDeleteLines(meta.lines, path)],
          changed |-> SoftDeleteCount(meta.lines, path)]

\* a loop that forgets the seen set
Kept_NoDedup(entries, path) == DOMAIN entries

\* the loop "Dedup by text_hash" of index_file: chunk i is kept when no
\* earlier chunk of the pass has its hash
Kept(entries, path) ==
    {i \in DOMAIN entries :
        \A j \in 1..(i - 1) :
            sha1_of_text(entries[j].text, path, entries[j].page)
                # sha1_of_text(entries[i].text, path, entries[i].page)}

RECURSIVE DedupFrom(_, _, _, _, _, _)
DedupFrom(entries, i, path, size, mtime_iso, metas) ==
    IF i > Len(entries) THEN metas
    ELSE IF i \in Kept(entries, path)
    THEN DedupFrom(entries, i + 1, path, size, mtime_iso,
            Append(metas,
                MetaEntry(size + Len(metas), path, Folder(path), mtime_iso,
                    entries[i].page,
                    sha1_of_text(entries[i].text, path, entries[i].page),
                    entries[i].text)))
    ELSE DedupFrom(entries, i + 1, path, size, mtime_iso, metas)

\* the metas list index_file builds; ids count up from self.size
Dedup(entries, path, size, mtime_iso) ==
    DedupFrom(entries, 1, path, size, mtime_iso, <<>>)

\* RAGIndex._append_meta
AppendMeta(meta, metas) == [exists |-> TRUE, lines |-> meta.lines \o metas]

\* what one index_file call leaves behind and returns
Outcome(self, faiss, meta, added, deleted, raised) ==
    [self |-> self, faiss |-> faiss, meta |-> meta, added |-> added,
     deleted |-> deleted, raised |-> raised]

\* an index_file that catches the failure of _embed and returns added 0
IndexFile_SwallowEmbed(self, faiss, meta, file, path, embedOK) ==
    LET sd == SoftDeletePath(meta, path)
        metas == Dedup(file.chunks, path, self.size, IsoFormat(file.mtime))
        old == LazyIndexRows(self, faiss)
        rows == old \o [i \in DOMAIN metas |-> Embed(metas[i].text)]
    IN  IF Ext(path) \notin SUPPORTED_EXTS \/ ~file.exists
        THEN Outcome(self, faiss, meta, 0, 0, FALSE)
        ELSE IF metas = <<>> \/ ~embedOK
        THEN Outcome(self, faiss, sd.meta, 0, sd.changed, FALSE)
        ELSE Outcome([index |-> TRUE, rows |-> rows, size |-> Len(rows)],
                     [state |-> "ok", rows |-> rows],
                     AppendMeta(sd.meta, metas),
                     Len(metas), sd.changed, FALSE)

\* an index_file that soft-deletes the path before it looks at the file
IndexFile_SoftDeleteFirst(self, faiss, meta, file, path, embedOK) ==
    LET sd == SoftDeletePath(meta, path)
        metas == Dedup(file.chunks, path, self.size, IsoFormat(file.mtime))
        old == LazyIndexRows(self, faiss)
        rows == old \o [i \in DOMAIN metas |-> Embed(metas[i].text)]
    IN  IF Ext(path) \notin SUPPORTED_EXTS \/ ~file.exists \/ metas = <<>>
        THEN Outcome(self, faiss, sd.meta, 0, sd.changed, FALSE)
        ELSE IF ~embedOK
        THEN Outcome(self, faiss, sd.meta, 0, sd.changed, TRUE)
        ELSE Outcome([index |-> TRUE, rows |-> rows, size |-> Len(rows)],
                     [state |-> "ok", rows |-> rows],
                     AppendMeta(sd.meta, metas),
                     Len(metas), sd.changed, FALSE)

\* RAGIndex.index_file(path) by the object self, on the files faiss and meta,
\* the user's file being file; embedOK: whether _embed returns (the model is
\* installed, loads and encodes) or raises
IndexFile(self, faiss, meta, file, path, embedOK) ==
    IF Ext(path) \notin SUPPORTED_EXTS
    THEN Outcome(self, faiss, meta, 0, 0, FALSE)
    ELSE IF ~file.exists
    THEN Outcome(self, faiss, meta, 0, 0, FALSE)
    ELSE
      LET sd == SoftDeletePath(meta, path)
          metas == Dedup(file.chunks, path, self.size, IsoFormat(file.mtime))
      IN  IF metas = <<>>
          THEN Outcome(self, faiss, sd.meta, 0, sd.changed, FALSE)
          ELSE IF ~embedOK
          THEN Outcome(self, faiss, sd.meta, 0, sd.changed, TRUE)
          ELSE
            LET old == LazyIndexRows(self, faiss)
                rows == old \o [i \in DOMAIN metas |-> Embed(metas[i].text)]
            IN  Outcome([index |-> TRUE, rows |-> rows, size |-> Len(rows)],
                        [state |-> "ok", rows |-> rows],
                        AppendMeta(sd.meta, metas),
                        Len(metas), sd.changed, FALSE)

\* the rows and sidecar lines a call would leave (for the bound of the model)
SizeAfter(self, faiss, meta, file, path) ==
    IF Ext(path) \in SUPPORTED_EXTS /\ file.exists
    THEN LET n == Cardinality(Kept(file.chunks, path))
             r == Len(LazyIndexRows(self, faiss)) + n
             m == Len(meta.lines) + n
         IN  IF r > m THEN r ELSE m
    ELSE 0

\* the record of the call that has just returned: op is who made it, path
\* its argument, src the path of the call made before it by the same handler
\* (on_moved); repeated says that the call right before it was a normal call on
\* the same path and the same file (unchanged: no save came between), and
\* prevAdded is what that call added.
\* Any step that is not a call puts NoCall in its place, so that while the
\* record stands the files are as the call found and left them.
CallRecord(op, path, out, src, before, unchanged) ==
    LET again == /\ before.op # "none"
                 /\ before.path = path
                 /\ ~before.raised
                 /\ unchanged
    IN  [op |-> op, path |-> path, added |-> out.added, deleted |-> out.deleted,
         raised |-> out.raised, src |-> src, repeated |-> again,
         prevAdded |-> IF again THEN before.added ELSE 0]

NoCall ==
    [op |-> "none", path |-> <<>>, added |-> 0, deleted |-> 0, raised |-> FALSE,
     src |-> <<>>, repeated |-> FALSE, prevAdded |-> 0]

----------------------------------------------------------------------------
(* query.py *)

Dot(u, v) == u[1] * v[1] + u[2] * v[2]

\* str(path).startswith(prefix)
StartsWith(path, prefix) ==
    /\ Len(prefix) <= Len(path)
    /\ \A i \in 1..Len(prefix) : path[i] = prefix[i]

\* the try block of _prefilter_meta's loop body: FALSE for its two continues,
\* TRUE when it ends or raises ("except Exception: pass")
InWindow(mtime_iso, time_from, time_to) ==
    IF ~IsIso(mtime_iso) THEN TRUE
    ELSE IF time_from # <<>> /\ ~Comparable(mtime_iso, time_from) THEN TRUE
    ELSE IF time_from # <<>> /\ FromIso(mtime_iso) < FromIso(time_from) THEN FALSE
    ELSE IF time_to # <<>> /\ ~Comparable(mtime_iso, time_to) THEN TRUE
    ELSE IF time_to # <<>> /\ FromIso(mtime_iso) > FromIso(time_to) THEN FALSE
    ELSE TRUE

\* a loop body without "if obj.get('deleted'): continue"
PassesPrefilter_KeepDeleted(obj, folder, time_from, time_to, prefilter_paths) ==
    /\ ~(folder # "" /\ obj.folder # folder)
    /\ ~(prefilter_paths # {}
            /\ \A p \in prefilter_paths : ~StartsWith(obj.path, p))
    /\ InWindow(obj.mtime_iso, time_from, time_to)

\* the test of _prefilter_meta's loop body: obj goes to out
PassesPrefilter(obj, folder, time_from, time_to, prefilter_paths) ==
    /\ ~obj.deleted
    /\ ~(folder # "" /\ obj.folder # folder)
    /\ ~(prefilter_paths # {}
            /\ \A p \in prefilter_paths : ~StartsWith(obj.path, p))
    /\ InWindow(obj.mtime_iso, time_from, time_to)

\* _prefilter_meta
PrefilterMeta(items, folder, time_from, time_to, prefilter_paths) ==
    SelectSeq(items,
        LAMBDA obj : PassesPrefilter(obj, folder, time_from, time_to, prefilter_paths))

\* read_meta_lines
ReadMetaLines(meta) == IF meta.exists THEN meta.lines ELSE <<>>

\* the metas list of search: the prefilter, and its fallback without the paths
SearchMetas(meta, folder, time_from, time_to, prefilter_paths) ==
    LET all == ReadMetaLines(meta)
        metas == PrefilterMeta(all, folder, time_from, time_to, prefilter_paths)
    IN  IF metas = <<>> /\ prefilter_paths # {}
        THEN PrefilterMeta(all, folder, time_from, time_to, {})
        ELSE metas

\* the number of neighbours search asks for
TopN(k) ==
    LET a == k * 5
        b == IF 50 > k * 3 THEN 50 ELSE k * 3
    IN  IF a < b THEN a ELSE b

\* the rows of a flat inner-product index from row i on (rows counted from
\* 1 here, from 0 in the index), each as <<row, score against qv>>
RECURSIVE ScoredFrom(_, _, _)
ScoredFrom(rows, qv, i) ==
    IF i > Len(rows) THEN <<>>
    ELSE <<<<i - 1, Dot(rows[i], qv)>>>> \o ScoredFrom(rows, qv, i + 1)

\* pair p put into pairs, which fall in score, behind every pair that scores
\* as much or more
RECURSIVE InsertPair(_, _)
InsertPair(p, pairs) ==
    IF pairs = <<>> THEN <<p>>
    ELSE IF Head(pairs)[2] >= p[2] THEN <<Head(pairs)>> \o InsertPair(p, Tail(pairs))
    ELSE <<p>> \o pairs

\* pairs by falling score, the earlier first among equal scores
RECURSIVE BestFirst(_)
BestFirst(pairs) ==
    IF pairs = <<>> THEN <<>>
    ELSE InsertPair(pairs[Len(pairs)], BestFirst(SubSeq(pairs, 1, Len(pairs) - 1)))

\* n times the row -1 a flat index fills a short answer with
RECURSIVE Padding(_)
Padding(n) == IF n <= 0 THEN <<>> ELSE <<<<-1, -1>>>> \o Padding(n - 1)

\* index.search(qv, n) of a flat inner-product index: the n best rows as
\* <<row, score>>, best first, the earlier row first among equal scores,
\* filled up with row -1 when the index holds fewer than n rows
VectorSearch(rows, qv, n) ==
    LET best == BestFirst(ScoredFrom(rows, qv, 1))
    IN  SubSeq(best, 1, IF n < Len(best) THEN n ELSE Len(best))
            \o Padding(n - Len(rows))

\* the candidates loop of search over what is left of found
RECURSIVE CandidatesFrom(_, _)
CandidatesFrom(found, seen_ids) ==
    IF found = <<>> THEN <<>>
    ELSE
      LET idx == Head(found)[1]
          rest == CandidatesFrom(Tail(found), seen_ids \cup {idx})
      IN  IF idx \in seen_ids THEN rest
          ELSE IF idx < 0 THEN rest
          ELSE <<Head(found)>> \o rest

\* the candidates loop of search: first occurrences, no negative row
Candidates(found) == CandidatesFrom(found, {})

\* meta_by_id.get(idx): the last of metas with that id, <<>> for None
MetaById(metas, idx) ==
    LET at == {i \in DOMAIN metas : metas[i].id = idx}
    IN  IF at = {} THEN <<>>
        ELSE <<metas[CHOOSE i \in at : \A j \in at : j <= i]>>

\* hit h put into hits, which fall in score, behind every hit that scores as
\* much or more
RECURSIVE InsertHit(_, _)
InsertHit(h, hits) ==
    IF hits = <<>> THEN <<h>>
    ELSE IF Head(hits).score >= h.score THEN <<Head(hits)>> \o InsertHit(h, Tail(hits))
    ELSE <<h>> \o hits

\* hits.sort(key=score, reverse=True): stable, so equal scores keep their order
RECURSIVE SortHits(_)
SortHits(hits) ==
    IF hits = <<>> THEN <<>>
    ELSE InsertHit(hits[Len(hits)], SortHits(SubSeq(hits, 1, Len(hits) - 1)))

\* the join of search: the candidates that have a metadata entry
RECURSIVE JoinHits(_, _)
JoinHits(cands, metas) ==
    IF cands = <<>> THEN <<>>
    ELSE
      LET m == MetaById(metas, Head(cands)[1])
          rest == JoinHits(Tail(cands), metas)
      IN  IF m = <<>> THEN rest
          ELSE <<[score |-> Head(cands)[2], meta |-> m[1]]>> \o rest

\* a return without the slice
TopK_All(hits, k) == hits

\* hits[:k], k >= 1
TopK(hits, k) == SubSeq(hits, 1, IF k < Len(hits) THEN k ELSE Len(hits))

\* search(query, k, folder, time_from, time_to, prefilter_paths) on the files
\* faiss and meta; haveModel: whether _lazy_model returns a model
Search(faiss, meta, haveModel, query, k, folder, time_from, time_to, prefilter_paths) ==
    IF faiss.state # "ok" \/ Len(faiss.rows) = 0 THEN <<>>
    ELSE IF ~haveModel THEN <<>>
    ELSE
      LET metas == SearchMetas(meta, folder, time_from, time_to, prefilter_paths)
      IN  IF metas = <<>> THEN <<>>
          ELSE
            LET found == VectorSearch(faiss.rows, Embed(query), TopN(k))
                hits == SortHits(JoinHits(Candidates(found), metas))
            IN  TopK(hits, k)

----------------------------------------------------------------------------
(* watcher.py *)

\* _is_ignored(path)
IsIgnored(path) ==
    \/ path[1] \in EXCLUDES
    \/ Ext(path) \in EXCLUDE_SUFFIXES

----------------------------------------------------------------------------
(* The state machine *)

\* service.py:11-16: _STATUS before any indexing
NoStatus == [folders |-> <<>>, chunks |-> 0, last_update |-> <<>>]

\* time.time() when the program starts, in ticks; a tick is half a second
Epoch == 10

\* no index_file call is in progress
Idle == [pc |-> "idle"]

\* a file that is not there
NoLines == [exists |-> FALSE, lines |-> <<>>]

\* the service's status, the handler, the clock and the call in progress at
\* the start
InitRest ==
    /\ status = NoStatus
    /\ now = Epoch
    /\ handlerLast = [p \in UserPaths |-> 0]
    /\ log = <<>>
    /\ proc = Idle
    /\ tmpMeta = NoLines
    /\ copied = 0

Init ==
    /\ fs = [p \in Paths |-> IF p = PathL THEN LogFile ELSE NoFile]
    /\ faissFile = [state |-> "absent", rows |-> <<>>]
    /\ metaFile = [exists |-> FALSE, lines |-> <<>>]
    /\ inst = [i \in Instances |-> NewRAGIndex]
    /\ last = NoCall
    /\ InitRest

\* the user saves a file
WriteFile(path, v) ==
    /\ fs' = [fs EXCEPT ![path] = v]
    /\ last' = NoCall
    /\ UNCHANGED <<faissFile, metaFile, inst, newVars>>

\* the user removes a file
RemoveFile(path) ==
    /\ fs[path].exists
    /\ fs' = [fs EXCEPT ![path] = NoFile]
    /\ last' = NoCall
    /\ UNCHANGED <<faissFile, metaFile, inst, newVars>>

\* the user renames a file
MoveFile(old, new) ==
    /\ old # new
    /\ fs[old].exists
    /\ fs' = [fs EXCEPT ![old] = NoFile, ![new] = fs[old]]
    /\ last' = NoCall
    /\ UNCHANGED <<faissFile, metaFile, inst, newVars>>

\* the vector file becomes unreadable
CorruptFaiss ==
    /\ faissFile.state = "ok"
    /\ faissFile' = [faissFile EXCEPT !.state = "corrupt"]
    /\ last' = NoCall
    /\ UNCHANGED <<fs, metaFile, inst, newVars>>

\* service.py:31, workers.py:193: every indexing run builds a RAGIndex
NewService ==
    /\ inst["service"] # NewRAGIndex
    /\ inst' = [inst EXCEPT !["service"] = NewRAGIndex]
    /\ last' = NoCall
    /\ UNCHANGED <<fs, faissFile, metaFile, newVars>>

\* the state after a call with outcome out by object i
Commit(i, out) ==
    /\ inst' = [inst EXCEPT ![i] = out.self]
    /\ faissFile' = out.faiss
    /\ metaFile' = out.meta

\* index_file(path) on the service's RAGIndex (index_folders, line 337)
ServiceIndexFile(path, embedOK, cap) ==
    /\ SizeAfter(inst["service"], faissFile, metaFile, fs[path], path) <= cap
    /\ LET out == IndexFile(inst["service"], faissFile, metaFile, fs[path], path, embedOK)
       IN  /\ Commit("service", out)
           /\ last' = CallRecord("index_file", path, out, <<>>, last, TRUE)
    /\ UNCHANGED <<fs, newVars>>

\* _Handler.on_deleted(event), event.src_path = src
OnDeleted(src, embedOK, cap) ==
    /\ SizeAfter(inst["watcher"], faissFile, metaFile, fs[src], src) <= cap
    /\ LET out == IndexFile(inst["watcher"], faissFile, metaFile, fs[src], src, embedOK)
       IN  /\ Commit("watcher", out)
           /\ last' = CallRecord("on_deleted", src, out, <<>>, last, TRUE)
    /\ UNCHANGED <<fs, newVars>>

\* _Handler.on_moved(event), event.src_path = old, event.dest_path = new
OnMoved(old, new, embedOK, cap) ==
    LET w == inst["watcher"]
        o1 == IndexFile(w, faissFile, metaFile, fs[old], old, embedOK)
        r1 == CallRecord("on_moved", old, o1, <<>>, last, TRUE)
        \* the state the second call starts from
        s1 == IF IsIgnored(old)
              THEN Outcome(w, faissFile, metaFile, 0, 0, FALSE)
              ELSE o1
        o2 == IndexFile(s1.self, s1.faiss, s1.meta, fs[new], new, embedOK)
        second == ~IsIgnored(new) /\ ~s1.raised
    IN  /\ old # new
        /\ ~IsIgnored(old) =>
               SizeAfter(w, faissFile, metaFile, fs[old], old) <= cap
        /\ second =>
               SizeAfter(s1.self, s1.faiss, s1.meta, fs[new], new) <= cap
        /\ Commit("watcher", IF second THEN o2 ELSE s1)
        /\ last' = IF second /\ ~IsIgnored(old)
                   THEN CallRecord("on_moved", new, o2, old, r1, TRUE)
                   ELSE IF second
                   THEN CallRecord("on_moved", new, o2, <<>>, last, TRUE)
                   ELSE IF ~IsIgnored(old) THEN r1
                   ELSE last
        /\ UNCHANGED <<fs, newVars>>

\* the user saves a file and the service indexes it at once
SaveAndIndex(path, v, embedOK, cap) ==
    /\ fs' = [fs EXCEPT ![path] = v]
    /\ SizeAfter(inst["service"], faissFile, metaFile, v, path) <= cap
    /\ LET out == IndexFile(inst["service"], faissFile, metaFile, v, path, embedOK)
       IN  /\ Commit("service", out)
           /\ last' = CallRecord("index_file", path, out, <<>>, last, fs[path] = v)
    /\ UNCHANGED newVars

\* the files and the service's RAGIndex
Next ==
    \/ \E p \in UserPaths, v \in Versions : WriteFile(p, v)
    \/ \E p \in UserPaths : RemoveFile(p)
    \/ NewService
    \/ \E p \in Paths, ok \in BOOLEAN : ServiceIndexFile(p, ok, MaxRows)

Spec == Init /\ [][Next]_vars

\* the same with renames, an unreadable vector file and the watcher's handlers
WatchNext ==
    \/ \E p \in UserPaths, v \in Versions : WriteFile(p, v)
    \/ \E p \in UserPaths : RemoveFile(p)
    \/ \E p, q \in UserPaths : MoveFile(p, q)
    \/ CorruptFaiss
    \/ NewService
    \/ \E p \in Paths, ok \in BOOLEAN : ServiceIndexFile(p, ok, WatchRows)
    \/ \E p \in Paths, ok \in BOOLEAN : OnDeleted(p, ok, WatchRows)
    \/ \E p, q \in Paths, ok \in BOOLEAN : OnMoved(p, q, ok, WatchRows)

SpecWatch == Init /\ [][WatchNext]_vars

\* the index as searches find it: every save is indexed
QueryStep ==
    \/ \E p \in UserPaths, v \in Versions, ok \in BOOLEAN :
            SaveAndIndex(p, v, ok, QueryRows)
    \/ CorruptFaiss
    \/ NewService

SpecQuery == Init /\ [][QueryStep]_vars

\* a long-lived service object indexing every save
DeepStep ==
    \E p \in UserPaths, v \in {x \in Versions : x.chunks # <<>>} :
        SaveAndIndex(p, v, TRUE, DeepRows)
SpecDeep == Init /\ [][DeepStep]_vars

----------------------------------------------------------------------------
(* What the claims speak of *)

Lines == ReadMetaLines(metaFile)

\* the sidecar lines of path that are not deleted
ActiveOf(path) == {i \in DOMAIN Lines : Lines[i].path = path /\ ~Lines[i].deleted}

\* the lines the call that has just returned appended
AddedLines == (Len(Lines) - last.added + 1)..Len(Lines)

\* a call has just returned normally
Returned == last.op # "none" /\ ~last.raised

\* the digests of the chunks of a file
HashesOf(path, file) ==
    {sha1_of_text(file.chunks[i].text, path, file.chunks[i].page) :
        i \in DOMAIN file.chunks}

----------------------------------------------------------------------------
(* C1  Alignment: while the vector file is readable, every sidecar entry that
   is not deleted has an id that is a row of the vector store, and that row is
   the vector of the entry's text; the entries a call has just added have the
   ids from the size the vector store had before the call's insertion
   upwards.  The code takes the ids from self.size, which a new RAGIndex
   holds at 0 until _lazy_index has loaded the persisted rows. *)
C1_Alignment ==
    faissFile.state = "ok" =>
        /\ \A i \in DOMAIN Lines :
              ~Lines[i].deleted =>
                  /\ Lines[i].id < Len(faissFile.rows)
                  /\ faissFile.rows[Lines[i].id + 1] = Embed(Lines[i].text)
        /\ Returned =>
              \A i \in AddedLines :
                  Lines[i].id =
                      (Len(faissFile.rows) - last.added) + (i - (Len(Lines) - last.added)) - 1

(* C2  Ids are never reused: no two entries of the sidecar, deleted or not,
   share an id.  (No replace-mode reset is among the steps.) *)
C2_IdsNeverReused ==
    \A i, j \in DOMAIN Lines : i # j => Lines[i].id # Lines[j].id

(* C3  Re-index replaces: when index_file(P) has just returned normally for a
   file that is there and has a supported extension, every entry of P from an
   earlier call is deleted, the entries of P that are not deleted are exactly
   the ones this call added, and these carry the distinct digests of the
   file's chunks, each once. *)
C3_ReindexReplaces ==
    (/\ Returned
     /\ Ext(last.path) \in SUPPORTED_EXTS
     /\ fs[last.path].exists) =>
        /\ \A i \in DOMAIN Lines :
              (i \notin AddedLines /\ Lines[i].path = last.path) => Lines[i].deleted
        /\ ActiveOf(last.path) = AddedLines
        /\ {Lines[i].text_hash : i \in AddedLines} = HashesOf(last.path, fs[last.path])
        /\ \A i, j \in AddedLines : i # j => Lines[i].text_hash # Lines[j].text_hash

\* a re-index that deleted entries and replaced them by fewer than the file
\* has chunks, two of which share a digest
C3_Witness ==
    /\ Returned
    /\ fs[last.path].exists
    /\ last.deleted > 0
    /\ last.added > 0
    /\ last.added < Len(fs[last.path].chunks)

(* C4  Dedup idempotence: when index_file has just returned for the second
   time in a row on the same file, nothing saved in between, it added as many
   entries as the first pass (N), it deleted N, and N entries of the path are
   not deleted. *)
C4_DedupIdempotent ==
    (/\ Returned
     /\ last.repeated
     /\ fs[last.path].exists) =>
        /\ last.added = last.prevAdded
        /\ last.deleted = last.prevAdded
        /\ Cardinality(ActiveOf(last.path)) = last.added

\* a second pass over a file with chunks, after entries of older passes
C4_Witness ==
    /\ Returned
    /\ last.repeated
    /\ fs[last.path].exists
    /\ last.added > 0
    /\ Cardinality({i \in DOMAIN Lines : Lines[i].path = last.path}) > 2 * last.added

(* C5  Watcher delete: when on_deleted has just handled a path whose file is
   gone, no entry of that path is left that is not deleted, and nothing was
   added.  index_file returns at the failed os.stat, before the soft delete. *)
C5_DeleteRemoves ==
    (last.op = "on_deleted" /\ ~fs[last.path].exists) =>
        /\ ActiveOf(last.path) = {}
        /\ last.added = 0

(* C6  Watcher rename: when on_moved has just handled old -> new, both calls
   made, the file gone from old and there at new, no entry of old is left that
   is not deleted and the entries of new that are not deleted carry the digests
   of the file's chunks. *)
C6_MoveMoves ==
    (/\ last.op = "on_moved"
     /\ ~last.raised
     /\ last.src # <<>>
     /\ ~fs[last.src].exists
     /\ fs[last.path].exists) =>
        /\ ActiveOf(last.src) = {}
        /\ {Lines[i].text_hash : i \in ActiveOf(last.path)}
              = HashesOf(last.path, fs[last.path])

----------------------------------------------------------------------------
(* The arguments search is called with *)

Queries == {"a b", "c"}
FolderArgs == {"", "docs", "work"}
LastTime == CHOOSE t \in Times : \A u \in Times : u <= t
TimeArgs == {<<>>} \cup {IsoFormat(t) : t \in Times} \cup {IsoFormatTz(LastTime)}
PathHints == {{}, {<<"docs">>}, {<<"work", "x", ".md">>}}

SearchArgs ==
    [query : Queries, k : 1..MaxK, folder : FolderArgs,
     time_from : TimeArgs, time_to : TimeArgs, prefilter_paths : PathHints]

\* search on the files as they are now, the embedding model installed
SearchNow(a) ==
    Search(faissFile, metaFile, TRUE, a.query, a.k, a.folder,
           a.time_from, a.time_to, a.prefilter_paths)

\* the path prefilter of a leaves nothing, so search falls back
FallsBack(a) ==
    /\ a.prefilter_paths # {}
    /\ PrefilterMeta(ReadMetaLines(metaFile), a.folder, a.time_from, a.time_to,
                     a.prefilter_paths) = <<>>

----------------------------------------------------------------------------
\* the rows index.search hands back for query and k
FoundRows(query, k) ==
    LET found == VectorSearch(faissFile.rows, Embed(query), TopN(k))
    IN  {found[r][1] : r \in DOMAIN found}

\* entry obj lies in the folder and the time window of a, bounds included
InFolderAndWindow(obj, a) ==
    /\ a.folder # "" => obj.folder = a.folder
    /\ a.time_from # <<>> => FromIso(obj.mtime_iso) >= FromIso(a.time_from)
    /\ a.time_to # <<>> => FromIso(obj.mtime_iso) <= FromIso(a.time_to)

(* C7  Soft-delete exclusivity: whatever the folder, time and path filters,
   and also when the path prefilter falls back, search returns no metadata
   entry whose deleted flag is set. *)
C7_NoDeletedHit ==
    \A a \in SearchArgs :
        LET hits == SearchNow(a)
        IN  \A i \in DOMAIN hits : ~hits[i].meta.deleted

\* a search that fell back and returned hits while the sidecar holds a deleted
\* entry whose row the vector search found
C7_Witness ==
    \E a \in SearchArgs :
        /\ FallsBack(a)
        /\ SearchNow(a) # <<>>
        /\ \E i \in DOMAIN Lines : Lines[i].deleted /\ Lines[i].id \in FoundRows(a.query, a.k)

(* C8  Filter correctness: with a folder argument search returns only entries
   of exactly that folder, with a time window only entries whose mtime_iso is
   in [time_from, time_to]; both hold when the path prefilter falls back; and
   an entry that is not deleted, lies in the folder and the window, a bound
   included, and fits the path hint is among the entries search joins with.
   A bound that carries a UTC offset cannot be compared with the stored
   mtime, which carries none: _prefilter_meta swallows the TypeError and
   keeps the entry. *)
C8_FilterCorrect ==
    \A a \in SearchArgs :
        LET hits == SearchNow(a)
            metas == SearchMetas(metaFile, a.folder, a.time_from, a.time_to,
                                 a.prefilter_paths)
        IN  /\ \A i \in DOMAIN hits : InFolderAndWindow(hits[i].meta, a)
            /\ \A i \in DOMAIN Lines :
                  (/\ ~Lines[i].deleted
                   /\ InFolderAndWindow(Lines[i], a)
                   /\ \/ a.prefilter_paths = {}
                      \/ \E p \in a.prefilter_paths : StartsWith(Lines[i].path, p))
                  => \E j \in DOMAIN metas : metas[j] = Lines[i]

(* C9  Search result shape: search returns at most k pairs, the scores never
   rising, no row id twice, and every returned entry's id is a row the vector
   search handed back. *)
C9_ResultShape ==
    \A query \in Queries, k \in 1..MaxK :
        LET found == FoundRows(query, k)
        IN  \A a \in SearchArgs :
              (a.query = query /\ a.k = k) =>
                LET hits == SearchNow(a)
                IN  /\ Len(hits) <= k
                    /\ \A i, j \in DOMAIN hits :
                          i < j => hits[i].score >= hits[j].score
                    /\ \A i, j \in DOMAIN hits :
                          i # j => hits[i].meta.id # hits[j].meta.id
                    /\ \A i \in DOMAIN hits : hits[i].meta.id \in found

\* a search for one hit that returns it from a vector store with more rows
\* than index.search hands back, and a search cut to k > 1 hits of different
\* scores
C9_Witness ==
    /\ \E a \in SearchArgs :
          /\ a.k = 1
          /\ Len(faissFile.rows) > TopN(a.k)
          /\ SearchNow(a) # <<>>
    /\ \E a \in SearchArgs :
          LET hits == SearchNow(a)
          IN  /\ a.k > 1
              /\ Len(hits) = a.k
              /\ hits[1].score > hits[a.k].score
              /\ Len(SearchMetas(metaFile, a.folder, a.time_from, a.time_to,
                                 a.prefilter_paths)) > a.k

(* C10  Path-prefilter fallback: whenever the search without prefilter_paths
   returns a hit, the same search with prefilter_paths returns one too.
   search falls back only when the prefilter leaves no metadata entry, not
   when the entries it leaves are not among the rows the vector search
   hands back. *)
C10_HintNeverEmpties ==
    \A a \in SearchArgs :
        SearchNow([a EXCEPT !.prefilter_paths = {}]) # <<>> => SearchNow(a) # <<>>

----------------------------------------------------------------------------
\* search(a) gets as far as index.search (query.py:91)
ReachesVectorSearch(a) ==
    /\ faissFile.state = "ok"
    /\ Len(faissFile.rows) > 0
    /\ SearchMetas(metaFile, a.folder, a.time_from, a.time_to,
                   a.prefilter_paths) # <<>>

\* the number of neighbours index.search hands back for a, fill-ins included
NeighboursAsked(a) == Len(VectorSearch(faissFile.rows, Embed(a.query), TopN(a.k)))

(* C11  Over-fetch size: a search that gets as far as the vector store asks
   it for max(5*k, 50) neighbours.  The code asks for
   min(5*k, max(50, 3*k)): 5 for k = 1, 60 for k = 20. *)
C11_OverFetch ==
    \A a \in SearchArgs :
        ReachesVectorSearch(a) =>
            NeighboursAsked(a) = (IF 5 * a.k > 50 THEN 5 * a.k ELSE 50)

----------------------------------------------------------------------------
\* what _lazy_model of query.py finds: the sentence_transformers package with
\* a model that loads, no package (HAVE_ST false, it returns None), or the
\* package with a model that does not load (SentenceTransformer(...) raises)
ModelStates == {"loaded", "missing", "broken"}

\* search as its caller sees it: the hits, or an exception.  _lazy_model is
\* called once the index is found to hold rows (query.py:72-77).
SearchOutcome(faiss, meta, model, a) ==
    IF faiss.state # "ok" \/ Len(faiss.rows) = 0
    THEN [raised |-> FALSE, hits |-> <<>>]
    ELSE IF model = "broken"
    THEN [raised |-> TRUE, hits |-> <<>>]
    ELSE [raised |-> FALSE,
          hits |-> Search(faiss, meta, model = "loaded", a.query, a.k, a.folder,
                          a.time_from, a.time_to, a.prefilter_paths)]

\* the vector file is absent, unreadable or holds no rows
IndexUnavailable == faissFile.state # "ok" \/ Len(faissFile.rows) = 0

(* C12  Empty or unavailable index: when the vector file is absent, unreadable
   or without rows, or the embedding model is not available, search returns
   the empty sequence and raises nothing.  With the package installed and a
   model that does not load, _lazy_model raises and search with it. *)
C12_UnavailableIsEmpty ==
    \A a \in SearchArgs, model \in ModelStates :
        (IndexUnavailable \/ model # "loaded") =>
            SearchOutcome(faissFile, metaFile, model, a)
                = [raised |-> FALSE, hits |-> <<>>]

----------------------------------------------------------------------------
\* what search(a) gives its caller on an index that was never populated
NeverPopulatedOutcome(model, a) ==
    SearchOutcome([state |-> "absent", rows |-> <<>>],
                  [exists |-> FALSE, lines |-> <<>>], model, a)

(* C13  Distinguishable zero results: what search gives its caller on a
   populated index is never what it gives on an index that is empty or
   unavailable, so that "nothing matched" can be told from "no index".
   search returns the same [] at query.py:74, 77, 88 and 113. *)
C13_ZeroResultsDistinct ==
    \A a \in SearchArgs, model \in ModelStates :
        ~IndexUnavailable =>
            SearchOutcome(faissFile, metaFile, model, a)
                # NeverPopulatedOutcome(model, a)

----------------------------------------------------------------------------
(* indexer.py: iter_sliding_windows.  A text is the sequence of its
   characters. *)

\* the longest text and the largest max_chars a call is made with
MaxText == 7
MaxChars == 4

NL == "\n"
Chars == {"a", "b", NL}
Blank == <<NL, NL>>
IsSpace(c) == c \in {" ", NL, "\t", "\r"}

\* the texts of up to n characters
TextsUpTo(n) == UNION {[1..m -> Chars] : m \in 0..n}

\* str.lstrip(), str.rstrip(), str.strip()
RECURSIVE LStrip(_)
LStrip(s) == IF s # <<>> /\ IsSpace(Head(s)) THEN LStrip(Tail(s)) ELSE s
RECURSIVE RStrip(_)
RStrip(s) ==
    IF s # <<>> /\ IsSpace(s[Len(s)]) THEN RStrip(SubSeq(s, 1, Len(s) - 1)) ELSE s
Strip(s) == RStrip(LStrip(s))

\* s.split("\n\n") from what is left of s, cur being the piece begun
RECURSIVE SplitFrom(_, _)
SplitFrom(s, cur) ==
    IF s = <<>> THEN <<cur>>
    ELSE IF Len(s) >= 2 /\ s[1] = NL /\ s[2] = NL
    THEN <<cur>> \o SplitFrom(SubSeq(s, 3, Len(s)), <<>>)
    ELSE SplitFrom(Tail(s), Append(cur, Head(s)))

\* [p.strip() for p in pieces if p.strip()]
RECURSIVE StripAll(_)
StripAll(pieces) ==
    IF pieces = <<>> THEN <<>>
    ELSE LET p == Strip(Head(pieces))
         IN  (IF p = <<>> THEN <<>> ELSE <<p>>) \o StripAll(Tail(pieces))

\* the paragraphs of a stripped text that is not empty (lines 122-124)
Paragraphs(text) ==
    LET ps == StripAll(SplitFrom(text, <<>>))
    IN  IF ps = <<>> THEN <<text>> ELSE ps

\* buf[-overlap:] if overlap > 0 else ""
BufTail(buf, overlap) ==
    IF overlap > 0
    THEN SubSeq(buf, (IF Len(buf) > overlap THEN Len(buf) - overlap + 1 ELSE 1), Len(buf))
    ELSE <<>>

\* the slices buf[i:i + width] for i in range(0, len(buf), step), s being
\* buf[i:]; empty slices are skipped (lines 141-144)
RECURSIVE WrapFrom(_, _, _)
WrapFrom(s, step, width) ==
    IF s = <<>> THEN <<>>
    ELSE <<SubSeq(s, 1, IF Len(s) < width THEN Len(s) ELSE width)>>
         \o WrapFrom(SubSeq(s, step + 1, Len(s)), step, width)

\* a hard wrap that steps by max_chars and so leaves characters out
HardWrap_StepMax(buf, max_chars, overlap) ==
    WrapFrom(buf, max_chars, max_chars - overlap)

\* the hard wrap of a buffer longer than max_chars (lines 141-144)
HardWrap(buf, max_chars, overlap) ==
    WrapFrom(buf, max_chars - overlap, max_chars - overlap)

\* the loop over the paragraphs left (lines 129-148)
RECURSIVE Windows(_, _, _, _, _)
Windows(ps, buf, chunks, max_chars, overlap) ==
    IF ps = <<>> THEN (IF buf # <<>> THEN Append(chunks, buf) ELSE chunks)
    ELSE LET p == Head(ps)
             slid == Strip(BufTail(buf, overlap) \o Blank \o p)
         IN  IF buf = <<>>
             THEN Windows(Tail(ps), p, chunks, max_chars, overlap)
             ELSE IF Len(buf) + 2 + Len(p) <= max_chars
             THEN Windows(Tail(ps), buf \o Blank \o p, chunks, max_chars, overlap)
             ELSE IF Len(slid) > max_chars
             THEN Windows(Tail(ps), <<>>,
                          Append(chunks, buf) \o HardWrap(slid, max_chars, overlap),
                          max_chars, overlap)
             ELSE Windows(Tail(ps), slid, Append(chunks, buf), max_chars, overlap)

\* iter_sliding_windows(text, max_chars, overlap), 0 <= overlap < max_chars
iter_sliding_windows(text, max_chars, overlap) ==
    LET t == Strip(text)
    IN  IF t = <<>> THEN <<>>
        ELSE Windows(Paragraphs(t), <<>>, <<>>, max_chars, overlap)

\* one call of iter_sliding_windows, recorded with what it returned
ChunkCall(text, max_chars, overlap) ==
    /\ last' = [op |-> "iter_sliding_windows", text |-> text,
                max_chars |-> max_chars, overlap |-> overlap,
                chunks |-> iter_sliding_windows(text, max_chars, overlap)]
    /\ UNCHANGED <<fs, faissFile, metaFile, inst, newVars>>

\* the caller has consumed the chunks
ChunkReturn ==
    /\ last.op = "iter_sliding_windows"
    /\ last' = NoCall
    /\ UNCHANGED <<fs, faissFile, metaFile, inst, newVars>>

ChunkStep ==
    \/ /\ last = NoCall
       /\ \E text \in TextsUpTo(MaxText), max_chars \in 1..MaxChars :
            \E overlap \in 0..(max_chars - 1) : ChunkCall(text, max_chars, overlap)
    \/ ChunkReturn

SpecChunk == Init /\ [][ChunkStep]_vars

Chunked == last.op = "iter_sliding_windows"

\* the paragraphs of the text of the call that just returned
ParagraphsOf(text) ==
    IF Strip(text) = <<>> THEN <<>> ELSE Paragraphs(Strip(text))

(* C14: every chunk iter_sliding_windows returns has at most max_chars
   characters, a paragraph longer than max_chars included, even when it is the
   first or the only one. *)
C14_ChunkBound ==
    Chunked => \A i \in DOMAIN last.chunks : Len(last.chunks[i]) <= last.max_chars

\* p in chunk, as Python's substring test
Contains(chunk, p) ==
    \E i \in 0..(Len(chunk) - Len(p)) : SubSeq(chunk, i + 1, i + Len(p)) = p

(* C15: a paragraph of at most max_chars characters lies entire inside one
   of the chunks returned; it is never cut between two chunks. *)
C15_ParagraphsIntact ==
    Chunked =>
        \A j \in DOMAIN ParagraphsOf(last.text) :
            LET p == ParagraphsOf(last.text)[j]
            IN  Len(p) <= last.max_chars =>
                    \E i \in DOMAIN last.chunks : Contains(last.chunks[i], p)

\* "".join(chunks)
RECURSIVE Concat(_)
Concat(chunks) ==
    IF chunks = <<>> THEN <<>> ELSE Head(chunks) \o Concat(Tail(chunks))

\* where p first occurs in s (0-based), Len(s) + 1 when it does not
FirstAt(s, p) ==
    LET at == {i \in 0..(Len(s) - Len(p)) : SubSeq(s, i + 1, i + Len(p)) = p}
    IN  IF at = {} THEN Len(s) + 1 ELSE CHOOSE i \in at : \A j \in at : i <= j

\* the paragraphs ps occur in s whole, in their order, one after the other
RECURSIVE InOrder(_, _)
InOrder(ps, s) ==
    IF ps = <<>> THEN TRUE
    ELSE LET p == Head(ps)
             i == FirstAt(s, p)
         IN  /\ i <= Len(s)
             /\ InOrder(Tail(ps), SubSeq(s, i + Len(p) + 1, Len(s)))

(* C16: the chunks, read one after the other, hold every paragraph of the
   text whole and in the text's order, the overlap tails and separators lying
   between them: no paragraph content is dropped.  A text with a character
   that is not whitespace gives at least one chunk, an empty or
   whitespace-only text gives none. *)
C16_Coverage ==
    Chunked =>
        /\ InOrder(ParagraphsOf(last.text), Concat(last.chunks))
        /\ (Strip(last.text) = <<>>) <=> (last.chunks = <<>>)

\* a call with overlap on several paragraphs where a buffer was hard-wrapped
C16_Witness ==
    /\ Chunked
    /\ last.overlap > 0
    /\ Len(ParagraphsOf(last.text)) >= 2
    /\ Len(last.chunks) > Len(ParagraphsOf(last.text))

----------------------------------------------------------------------------
(* query.py: build_prompt.  A message is the sequence of its pieces: the
   literal pieces of the f-strings, the components of a path, decimal digits
   and the characters of a chunk text. *)

\* the most hits build_prompt is called with
MaxHits == 3

Digits == <<"0", "1", "2", "3", "4", "5", "6", "7", "8", "9">>

\* str(n) of an integer n >= 0
RECURSIVE Str(_)
Str(n) ==
    IF n < 10 THEN <<Digits[n + 1]>>
    ELSE Str(n \div 10) \o <<Digits[(n % 10) + 1]>>

\* s.replace("\n\n", "\n")
RECURSIVE ReplaceBlank(_)
ReplaceBlank(s) ==
    IF s = <<>> THEN <<>>
    ELSE IF Len(s) >= 2 /\ s[1] = NL /\ s[2] = NL
    THEN <<NL>> \o ReplaceBlank(SubSeq(s, 3, Len(s)))
    ELSE <<Head(s)>> \o ReplaceBlank(Tail(s))

\* hits[:n_ctx]
Slice(hits, n_ctx) ==
    LET n == IF n_ctx >= 0 THEN n_ctx ELSE Len(hits) + n_ctx
    IN  SubSeq(hits, 1, IF n > Len(hits) THEN Len(hits) ELSE n)

\* f"{path}:p{page}" if page else path; page 0 stands for None
Tag(m) == IF m.page # 0 THEN m.path \o <<":p">> \o Str(m.page) ELSE m.path

\* f"[{i}] {tag}\n{text}" for the hit (score, m)
Snippet(i, hit) ==
    LET m == hit[2]
    IN  <<"[">> \o Str(i) \o <<"] ">> \o Tag(m) \o <<NL>>
        \o ReplaceBlank(Strip(m.text))

\* the snippets of hits, numbered from i on
RECURSIVE SnippetsFrom(_, _)
SnippetsFrom(hits, i) ==
    IF hits = <<>> THEN <<>>
    ELSE <<Snippet(i, Head(hits))>> \o SnippetsFrom(Tail(hits), i + 1)

\* an enumerate without start=1
Snippets_FromZero(hits) == SnippetsFrom(hits, 0)

\* the loop over enumerate(hits[:n_ctx], start=1), hits being the slice
Snippets(hits) == SnippetsFrom(hits, 1)

Separator == "\n---\n"

\* "\n---\n".join(snippets)
RECURSIVE JoinSnippets(_)
JoinSnippets(snippets) ==
    IF snippets = <<>> THEN <<>>
    ELSE IF Len(snippets) = 1 THEN Head(snippets)
    ELSE Head(snippets) \o <<Separator>> \o JoinSnippets(Tail(snippets))

system_msg ==
    <<"Answer ONLY", " from the provided snippets. Cite sources like [1], [2] inline. ",
      "If the answer is not found in the snippets, say: 'Not enough info from the provided files.'">>

\* build_prompt(query, hits, n_ctx): (system_msg, user_msg)
build_prompt(query, hits, n_ctx) ==
    <<system_msg,
      <<"Question: ", query, NL, NL>> \o JoinSnippets(Snippets(Slice(hits, n_ctx)))>>

\* the chunk texts of the hits: one line, and two paragraphs with whitespace
\* around them
HitTexts == {<<"a">>, <<NL, "a", NL, NL, "b", " ">>}
\* page None and a page of a paged document
HitPages == {0, 2}
HitMetas == [path : UserPaths, page : HitPages, text : HitTexts]

\* the hit lists of up to n hits, as search returns them: (score, meta)
HitsUpTo(n) == UNION {[1..m -> {<<1, x>> : x \in HitMetas}] : m \in 0..n}

\* one call of build_prompt, recorded with what it returned
PromptCall(query, hits, n_ctx) ==
    /\ last' = [op |-> "build_prompt", query |-> query, hits |-> hits,
                n_ctx |-> n_ctx, out |-> build_prompt(query, hits, n_ctx)]
    /\ UNCHANGED <<fs, faissFile, metaFile, inst, newVars>>

\* the caller has sent the prompt to the model
PromptReturn ==
    /\ last.op = "build_prompt"
    /\ last' = NoCall
    /\ UNCHANGED <<fs, faissFile, metaFile, inst, newVars>>

PromptStep ==
    \/ /\ last = NoCall
       /\ \E query \in Queries, hits \in HitsUpTo(MaxHits), n_ctx \in 0..(MaxHits + 1) :
            PromptCall(query, hits, n_ctx)
    \/ PromptReturn

SpecPrompt == Init /\ [][PromptStep]_vars

Prompted == last.op = "build_prompt"

\* the pieces of s between the separators
RECURSIVE SplitAtSeparator(_, _)
SplitAtSeparator(s, cur) ==
    IF s = <<>> THEN <<cur>>
    ELSE IF Head(s) = Separator THEN <<cur>> \o SplitAtSeparator(Tail(s), <<>>)
    ELSE SplitAtSeparator(Tail(s), Append(cur, Head(s)))

\* the snippets read back from a user message: what follows the question,
\* cut at the separators
SnippetsIn(user_msg) ==
    SelectSeq(SplitAtSeparator(SubSeq(user_msg, 5, Len(user_msg)), <<>>),
              LAMBDA x : x # <<>>)

\* the path of the hit, then :p<page> when the hit has a page
PathAndPage(m) == IF m.page # 0 THEN m.path \o <<":p">> \o Str(m.page) ELSE m.path

(* C17: the user message holds exactly min(len(hits), n_ctx) snippets, in the
   order of the hits, numbered [1], [2], ... without a gap, snippet i
   beginning with its number and the path of hit i, followed by :p<page> when
   the hit has a page; the system message contains 'Answer ONLY'. *)
C17_PromptShape ==
    Prompted =>
        LET sn == SnippetsIn(last.out[2])
            n == IF Len(last.hits) < last.n_ctx THEN Len(last.hits) ELSE last.n_ctx
        IN  /\ Len(sn) = n
            /\ \A i \in 1..n :
                StartsWith(sn[i], <<"[">> \o Str(i) \o <<"] ">>
                                  \o PathAndPage(last.hits[i][2]) \o <<NL>>)
            /\ Contains(last.out[1], <<"Answer ONLY">>)

\* a call that cuts the hits to n_ctx, with paged and unpaged hits among
\* those kept
C17_Witness ==
    /\ Prompted
    /\ last.n_ctx >= 2
    /\ Len(last.hits) > last.n_ctx
    /\ \E i, j \in 1..last.n_ctx :
        last.hits[i][2].page = 0 /\ last.hits[j][2].page # 0

----------------------------------------------------------------------------
(* index_file on a file it skips or finds empty *)

(* C18: a call index_file(path) on an unsupported extension, or on a file
   os.stat fails on, returns added 0 and deleted 0 and leaves the vector file
   and the metadata sidecar as they were. *)
C18_SkipChangesNothing ==
    [][\A p \in Paths :
        (/\ last'.op = "index_file"
         /\ last'.path = p
         /\ (Ext(p) \notin SUPPORTED_EXTS \/ ~fs[p].exists)) =>
            /\ last'.added = 0
            /\ last'.deleted = 0
            /\ ~last'.raised
            /\ faissFile' = faissFile
            /\ metaFile' = metaFile]_vars

\* index_file has just returned on a supported path whose file is gone while
\* entries of the path are not deleted
C18_Witness ==
    /\ last.op = "index_file"
    /\ Ext(last.path) \in SUPPORTED_EXTS
    /\ ~fs[last.path].exists
    /\ ActiveOf(last.path) # {}

(* C19: a call index_file(path) on a supported file that os.stat finds and
   whose text is empty returns added 0 and deleted = the number of entries of
   the path that were not deleted before the call; those entries are deleted
   after it, no other line changes, and the vector store (the rows in memory
   and the file) is as it was. *)
C19_EmptyTextOnlyDeletes ==
    [][\A p \in Paths :
        (/\ last'.op = "index_file"
         /\ last'.path = p
         /\ Ext(p) \in SUPPORTED_EXTS
         /\ fs[p].exists
         /\ fs[p].chunks = <<>>) =>
            /\ last'.added = 0
            /\ ~last'.raised
            /\ last'.deleted = Cardinality(ActiveOf(p))
            /\ Len(Lines') = Len(Lines)
            /\ \A i \in DOMAIN Lines :
                Lines'[i] = IF i \in ActiveOf(p)
                            THEN [Lines[i] EXCEPT !.deleted = TRUE]
                            ELSE Lines[i]
            /\ faissFile' = faissFile
            /\ inst' = inst]_vars

\* index_file has just returned on an empty file whose path had entries that
\* were not deleted
C19_Witness ==
    /\ last.op = "index_file"
    /\ fs[last.path].exists
    /\ fs[last.path].chunks = <<>>
    /\ last.deleted > 0
    /\ Len(faissFile.rows) > 0

----------------------------------------------------------------------------
(* indexer.py: RAGIndex.index_folders.  The tree has the directories docs and
   work, one level deep. *)

\* the rows and sidecar lines the walks may leave
WalkRows == 3

\* a hidden file and a third file to index, both as they are from the start
PathH == <<"docs", ".h", ".md">>
PathC == <<"work", "c", ".txt">>
WalkPaths == Paths \cup {PathH, PathC}
Dirs == {Folder(p) : p \in WalkPaths}

\* fn.startswith('.')
Hidden(path) == path[2] \in {".h"}

\* the files of root index_folders passes to index_file (lines 329-335)
FilesToIndex(files, root) ==
    {p \in DOMAIN files :
        /\ files[p].exists
        /\ Folder(p) = root
        /\ ~Hidden(p)
        /\ Ext(p) \in SUPPORTED_EXTS}

\* the orders in which a set can be listed
Orders(S) ==
    {f \in [1..Cardinality(S) -> S] : \A i, j \in DOMAIN f : i # j => f[i] # f[j]}

\* the orders in which os.walk may yield the files, root after root; a root
\* that is no directory is passed over (lines 323-326)
RECURSIVE WalkOrders(_, _)
WalkOrders(files, folders) ==
    IF folders = <<>> THEN {<<>>}
    ELSE LET here == IF Head(folders) \in Dirs
                     THEN Orders(FilesToIndex(files, Head(folders)))
                     ELSE {<<>>}
         IN  {a \o b : a \in here, b \in WalkOrders(files, Tail(folders))}

\* an except clause that ends the walk
AfterRaise_Abort(rest) == <<>>

\* "except Exception: traceback.print_exc(); continue": the files still to come
AfterRaise(rest) == rest

\* the loop of index_folders over the files in order: w holds the object, the
\* two files, the totals and the calls made so far; fail is the set of paths
\* on which _embed raises
RECURSIVE Walk(_, _, _, _)
Walk(order, files, fail, w) ==
    IF order = <<>> THEN w
    ELSE LET path == Head(order)
             out == IndexFile(w.self, w.faiss, w.meta, files[path], path,
                              path \notin fail)
             call == [path |-> path, raised |-> out.raised,
                      added |-> out.added, deleted |-> out.deleted]
         IN  IF out.raised
             THEN Walk(AfterRaise(Tail(order)), files, fail,
                       [w EXCEPT !.self = out.self, !.faiss = out.faiss,
                                 !.meta = out.meta,
                                 !.calls = Append(w.calls, call)])
             ELSE Walk(Tail(order), files, fail,
                       [self |-> out.self, faiss |-> out.faiss, meta |-> out.meta,
                        added |-> w.added + out.added,
                        deleted |-> w.deleted + out.deleted,
                        calls |-> Append(w.calls, call)])

\* RAGIndex.index_folders(folders) by the service's object, os.walk yielding
\* the files in order
IndexFolders(folders, order, fail) ==
    LET w == Walk(order, fs, fail,
                  [self |-> inst["service"], faiss |-> faissFile, meta |-> metaFile,
                   added |-> 0, deleted |-> 0, calls |-> <<>>])
    IN  /\ Len(w.faiss.rows) <= WalkRows
        /\ Len(w.meta.lines) <= WalkRows
        /\ Commit("service", w)
        /\ last' = [op |-> "index_folders", folders |-> folders,
                    added |-> w.added, deleted |-> w.deleted, calls |-> w.calls]
        /\ UNCHANGED <<fs, newVars>>

WalkInit ==
    /\ fs = [p \in WalkPaths |->
                IF p \in {PathL, PathH, PathC} THEN LogFile ELSE NoFile]
    /\ faissFile = [state |-> "absent", rows |-> <<>>]
    /\ metaFile = [exists |-> FALSE, lines |-> <<>>]
    /\ inst = [i \in Instances |-> NewRAGIndex]
    /\ last = NoCall
    /\ InitRest

\* the roots index_folders is called with: directories and a name that is none
FolderLists == {<<"work">>, <<"docs", "work">>, <<"gone", "work", "docs">>}

WalkStep ==
    \/ \E p \in UserPaths, v \in Versions : WriteFile(p, v)
    \/ \E p \in UserPaths : RemoveFile(p)
    \/ NewService
    \/ \E folders \in FolderLists :
        \E order \in WalkOrders(fs, folders), fail \in SUBSET UserPaths :
            IndexFolders(folders, order, fail)

SpecWalk == WalkInit /\ [][WalkStep]_vars

Walked == last.op = "index_folders"

\* the sum of f over the calls of a walk that returned normally
RECURSIVE SumReturned(_, _)
SumReturned(calls, f) ==
    IF calls = <<>> THEN 0
    ELSE (IF Head(calls).raised THEN 0 ELSE Head(calls)[f])
         + SumReturned(Tail(calls), f)

(* C20: when index_folders has returned, every existing file of its roots
   that is not hidden and has a supported extension was passed to index_file
   once, whether or not index_file raised on another file, and the totals
   returned are the sums of added and deleted over the calls that returned
   normally. *)
C20_WalkSurvivesFailure ==
    Walked =>
        /\ {last.calls[i].path : i \in DOMAIN last.calls}
             = {p \in WalkPaths :
                    /\ fs[p].exists
                    /\ \E j \in DOMAIN last.folders : Folder(p) = last.folders[j]
                    /\ p[2] # ".h"
                    /\ Ext(p) \in SUPPORTED_EXTS}
        /\ \A i, j \in DOMAIN last.calls :
                i # j => last.calls[i].path # last.calls[j].path
        /\ last.added = SumReturned(last.calls, "added")
        /\ last.deleted = SumReturned(last.calls, "deleted")

\* a walk in which a call raised and a later call returned and added entries
C20_Witness ==
    /\ Walked
    /\ \E i, j \in DOMAIN last.calls :
        /\ i < j
        /\ last.calls[i].raised
        /\ ~last.calls[j].raised
        /\ last.calls[j].added > 0
    /\ last.deleted > 0

----------------------------------------------------------------------------
(* service.py: ensure_index_started, get_status *)

\* the rows and sidecar lines the indexing runs may leave
ServiceRows == 2

\* a hard reset that removes the vector file and leaves the sidecar
HardReset_KeepMeta(replace, faiss, meta) ==
    IF replace THEN [faiss |-> [state |-> "absent", rows |-> <<>>], meta |-> meta]
    ELSE [faiss |-> faiss, meta |-> meta]

\* service.py:32-43: with replace, os.remove of FAISS_PATH and META_PATH
HardReset(replace, faiss, meta) ==
    IF replace
    THEN [faiss |-> [state |-> "absent", rows |-> <<>>], meta |-> NoLines]
    ELSE [faiss |-> faiss, meta |-> meta]

\* ensure_index_started(folders, replace=replace): a new RAGIndex, the hard
\* reset, index_folders (the call with progress_cb raises TypeError before the
\* walk starts and is made again without it), then _STATUS.  The object is
\* local to the call.
EnsureIndexStarted(folders, order, fail, replace) ==
    LET files == HardReset(replace, faissFile, metaFile)
        w == Walk(order, fs, fail,
                  [self |-> NewRAGIndex, faiss |-> files.faiss, meta |-> files.meta,
                   added |-> 0, deleted |-> 0, calls |-> <<>>])
    IN  /\ Len(w.faiss.rows) <= ServiceRows
        /\ Len(w.meta.lines) <= ServiceRows
        /\ faissFile' = w.faiss
        /\ metaFile' = w.meta
        /\ status' = [folders |-> folders, chunks |-> w.self.size,
                      last_update |-> <<w.added, w.deleted>>]
        /\ last' = [op |-> "ensure_index_started", folders |-> folders,
                    replace |-> replace, added |-> w.added, deleted |-> w.deleted]
        /\ UNCHANGED <<fs, inst, now, handlerLast, log, proc, tmpMeta, copied>>

\* get_status()
get_status == status

\* the roots the indexing runs are started with
ServiceFolders == {<<"docs">>, <<"work">>, <<"gone", "work", "docs">>}

\* the files _embed raises on in a run: none, one file, every file (no model)
EmbedFailures == {{}, {PathA}, {PathA, PathB, PathC}}

ServiceStep ==
    \/ \E p \in UserPaths, v \in Versions : WriteFile(p, v)
    \/ \E p \in UserPaths : RemoveFile(p)
    \/ \E folders \in ServiceFolders, replace \in BOOLEAN :
        \E order \in WalkOrders(fs, folders), fail \in EmbedFailures :
            EnsureIndexStarted(folders, order, fail, replace)

SpecService == WalkInit /\ [][ServiceStep]_vars

Started == last.op = "ensure_index_started"

(* C21: when ensure_index_started(folders, replace=True) has returned, every
   entry of the sidecar has a path under one of the folders, the ids are
   0, 1, 2, ... in the order of the lines, and the vector file holds one row
   per entry. *)
C21_ReplaceScopes ==
    (Started /\ last.replace) =>
        /\ \A i \in DOMAIN Lines :
            /\ \E j \in DOMAIN last.folders : Folder(Lines[i].path) = last.folders[j]
            /\ Lines[i].id = i - 1
        /\ Len(faissFile.rows) = Len(Lines)

\* a replace run over work alone that indexed a file, while a file of docs
\* exists, and re-indexed none
C21_Witness ==
    /\ Started
    /\ last.replace
    /\ last.folders = <<"work">>
    /\ fs[PathA].exists /\ fs[PathA].chunks # <<>>
    /\ last.added >= 2
    /\ last.deleted = 0

\* the number of vectors in the persisted vector store
PersistedRows == IF faissFile.state = "ok" THEN Len(faissFile.rows) ELSE 0

(* C25: get_status() reports chunks = 0 before any indexing run, and when
   ensure_index_started has returned, with or without replace, it reports
   chunks = the number of vectors in the persisted vector store. *)
C25_StatusChunks ==
    /\ get_status.last_update = <<>> => get_status.chunks = 0
    /\ Started => get_status.chunks = PersistedRows

----------------------------------------------------------------------------
(* watcher.py: _Handler._throttle, on_created, on_modified.  Time is counted
   in ticks of half a second. *)

\* the events the handler is given, the ticks the clock makes, the rows and
\* sidecar lines the handler may leave
MaxEvents == 3
MaxTicks == 3
ThrottleRows == 3

\* delay = 1.0 second
Delay == 2

\* a throttle that lets an event through when the time since the last one is
\* not negative
Throttled_Never(path, t) == t - handlerLast[path] < 0

\* _Handler._throttle(path) at time t says True (lines 34-37); a path never
\* seen counts as seen at time 0.0
Throttled(path, t) == t - handlerLast[path] < Delay

\* time passes
Tick ==
    /\ now < Epoch + MaxTicks
    /\ now' = now + 1
    /\ last' = NoCall
    /\ UNCHANGED <<fs, faissFile, metaFile, inst, status, handlerLast, log, proc, tmpMeta, copied>>

\* the user saves v at path, the observer reports it and on_created (when the
\* file is new) or on_modified handles the event at once
OnCreatedOrModified(path, v) ==
    LET kind == IF fs[path].exists THEN "on_modified" ELSE "on_created"
        w == inst["watcher"]
        called == ~IsIgnored(path) /\ ~Throttled(path, now)
        out == IF called
               THEN IndexFile(w, faissFile, metaFile, v, path, TRUE)
               ELSE Outcome(w, faissFile, metaFile, 0, 0, FALSE)
    IN  /\ Len(log) < MaxEvents
        /\ called => SizeAfter(w, faissFile, metaFile, v, path) <= ThrottleRows
        /\ fs' = [fs EXCEPT ![path] = v]
        /\ handlerLast' = IF called THEN [handlerLast EXCEPT ![path] = now]
                          ELSE handlerLast
        /\ Commit("watcher", out)
        /\ last' = IF called THEN CallRecord(kind, path, out, <<>>, last, FALSE)
                   ELSE NoCall
        /\ log' = Append(log, [path |-> path, at |-> now, called |-> called])
        /\ UNCHANGED <<status, now, proc, tmpMeta, copied>>

ThrottleStep ==
    \/ Tick
    \/ \E p \in UserPaths, v \in Versions : OnCreatedOrModified(p, v)
    \/ OnCreatedOrModified(PathL, LogFile)

SpecThrottle == Init /\ [][ThrottleStep]_vars

\* the events before event j on the same path that led to an index_file call
Triggering(j) ==
    {i \in 1..(j - 1) : log[i].path = log[j].path /\ log[i].called}

(* C22: of the create and modify events on a path that is not ignored, the
   first is followed by an index_file call; an event is followed by a call
   only if every earlier event of the path that was followed by one lies at
   least one second back, and an event less than a second after such an
   event is dropped. *)
C22_Throttle ==
    \A j \in DOMAIN log :
        ~IsIgnored(log[j].path) =>
            /\ Triggering(j) = {} => log[j].called
            /\ log[j].called =>
                \A i \in Triggering(j) : log[j].at - log[i].at >= Delay
            /\ (\E i \in Triggering(j) : log[j].at - log[i].at < Delay)
                    => ~log[j].called

\* an event dropped half a second after the one that was indexed, and a later
\* event of the same path indexed again
C22_Witness ==
    \E i, j, k \in DOMAIN log :
        /\ i < j /\ j < k
        /\ log[i].path = log[j].path /\ log[j].path = log[k].path
        /\ log[i].called /\ ~log[j].called /\ log[k].called
        /\ log[j].at = log[i].at + 1

\* the same, time never standing still before the clock's bound: the events
\* are finitely many, so from some point on no event comes
SpecThrottleLive == Init /\ [][ThrottleStep]_vars /\ WF_vars(Tick)

\* the entries of path that are not deleted are those of the file's chunks
IndexCurrent(path) ==
    {Lines[i].text_hash : i \in ActiveOf(path)}
        = (IF fs[path].exists THEN HashesOf(path, fs[path]) ELSE {})

(* C27: after the create and modify events of a burst, no event coming after
   them, the index holds from some point on the chunks of the final content of
   every path: the last save of the burst is not lost. *)
C27_LatestIndexed == <>[](\A p \in UserPaths : IndexCurrent(p))

----------------------------------------------------------------------------
(* index_file when the embedding step fails *)

\* index_file(path) called now by the service's object, _embed raising
FailingCall(path) ==
    IndexFile(inst["service"], faissFile, metaFile, fs[path], path, FALSE)

\* the file of path is supported, there, and gives at least one chunk
HasChunks(path) ==
    /\ Ext(path) \in SUPPORTED_EXTS
    /\ fs[path].exists
    /\ fs[path].chunks # <<>>

(* C23: index_file on a file that gives at least one chunk, the embedding
   step failing, raises instead of returning, and the vector file has the rows
   it had and the sidecar the number of lines it had: nothing is appended.
   Accordingly a call that has just ended on such a file either raised or
   added at least one entry. *)
C23_EmbedFailureRaises ==
    /\ \A p \in Paths :
        HasChunks(p) =>
            /\ FailingCall(p).raised
            /\ FailingCall(p).faiss = faissFile
            /\ Len(FailingCall(p).meta.lines) = Len(metaFile.lines)
    /\ (last.op = "index_file" /\ HasChunks(last.path)) =>
            (last.raised \/ last.added > 0)

\* index_file has just raised on a file with chunks while the store holds
\* rows and the sidecar lines
C23_Witness ==
    /\ last.op = "index_file"
    /\ last.raised
    /\ HasChunks(last.path)
    /\ Len(faissFile.rows) > 0
    /\ Len(Lines) > 0

(* C28: when a call index_file(path) ends with an exception, the entries of
   the path that were not deleted before the call are not deleted after it:
   the sidecar and the vector file are as they were. *)
C28_FailureKeepsOld ==
    [][\A p \in Paths :
        (last'.op = "index_file" /\ last'.path = p /\ last'.raised) =>
            /\ ActiveOf(p)' = ActiveOf(p)
            /\ metaFile' = metaFile
            /\ faissFile' = faissFile]_vars

----------------------------------------------------------------------------
(* index_file step by step: each step ends at a write to a file, and the
   process may die between two steps *)

\* the rows and sidecar lines the calls may leave
StepRows == 3

\* the entries of path a search finds now: not deleted, their id a row of the
\* vector file
Visible(path) ==
    {Lines[i].text_hash :
        i \in {j \in ActiveOf(path) : Lines[j].id < Len(faissFile.rows)}}

\* the record of a call that ends without adding
Ended(path, deleted, raised) ==
    CallRecord("index_file", path,
               Outcome(inst["service"], faissFile, metaFile, 0, deleted, raised),
               <<>>, NoCall, FALSE)

\* lines 251-297: the call starts; a skipped file ends it at once, any other
\* has its entries soft-deleted (os.replace of the rewritten sidecar) and its
\* chunks read and deduplicated, ids from self.size
BeginIndexFile(path) ==
    LET self == inst["service"]
        sd == SoftDeletePath(metaFile, path)
        metas == Dedup(fs[path].chunks, path, self.size, IsoFormat(fs[path].mtime))
    IN  /\ proc = Idle
        /\ SizeAfter(self, faissFile, metaFile, fs[path], path) <= StepRows
        /\ IF Ext(path) \notin SUPPORTED_EXTS \/ ~fs[path].exists
           THEN /\ last' = Ended(path, 0, FALSE)
                /\ UNCHANGED <<metaFile, proc>>
           ELSE /\ metaFile' = sd.meta
                /\ IF metas = <<>>
                   THEN /\ last' = Ended(path, sd.changed, FALSE)
                        /\ proc' = Idle
                   ELSE /\ last' = NoCall
                        /\ proc' = [pc |-> "chunked", path |-> path, metas |-> metas,
                                    deleted |-> sd.changed, before |-> Visible(path)]
        /\ UNCHANGED <<fs, faissFile, inst, status, now, handlerLast, log, tmpMeta, copied>>

\* line 299: _embed returns, or raises and ends the call
EmbedStep(embedOK) ==
    /\ proc.pc = "chunked"
    /\ IF embedOK
       THEN /\ proc' = [proc EXCEPT !.pc = "embedded"]
            /\ last' = NoCall
       ELSE /\ proc' = Idle
            /\ last' = Ended(proc.path, proc.deleted, TRUE)
    /\ UNCHANGED <<fs, faissFile, metaFile, inst, status, now, handlerLast, log,
                   tmpMeta, copied>>

\* a step that adds the vectors in memory and leaves the vector file for later
PersistStep_MemoryOnly ==
    LET old == LazyIndexRows(inst["service"], faissFile)
        rows == old \o [i \in DOMAIN proc.metas |-> Embed(proc.metas[i].text)]
    IN  /\ proc.pc = "embedded"
        /\ inst' = [inst EXCEPT !["service"] =
                        [index |-> TRUE, rows |-> rows, size |-> Len(rows)]]
        /\ proc' = [proc EXCEPT !.pc = "persisted"]
        /\ last' = NoCall
        /\ UNCHANGED <<fs, faissFile, metaFile, status, now, handlerLast, log,
                       tmpMeta, copied>>

\* lines 300-309: _lazy_index, index.add, write_index to a temporary file and
\* os.replace onto FAISS_PATH
PersistStep ==
    LET old == LazyIndexRows(inst["service"], faissFile)
        rows == old \o [i \in DOMAIN proc.metas |-> Embed(proc.metas[i].text)]
    IN  /\ proc.pc = "embedded"
        /\ inst' = [inst EXCEPT !["service"] =
                        [index |-> TRUE, rows |-> rows, size |-> Len(rows)]]
        /\ faissFile' = [state |-> "ok", rows |-> rows]
        /\ proc' = [proc EXCEPT !.pc = "persisted"]
        /\ last' = NoCall
        /\ UNCHANGED <<fs, metaFile, status, now, handlerLast, log, tmpMeta, copied>>

\* _append_meta, lines 216-219: the entries are written to the temporary
\* file, opened in mode "a"
WriteTmp ==
    /\ proc.pc = "persisted"
    /\ tmpMeta' = [exists |-> TRUE, lines |-> tmpMeta.lines \o proc.metas]
    /\ proc' = [proc EXCEPT !.pc = "tmp_written"]
    /\ last' = NoCall
    /\ UNCHANGED <<fs, faissFile, metaFile, inst, status, now, handlerLast, log, copied>>

\* _append_meta, lines 221-222: the temporary file is read and written to the
\* end of the sidecar
CopyTmp ==
    /\ proc.pc = "tmp_written"
    /\ metaFile' = [exists |-> TRUE, lines |-> metaFile.lines \o tmpMeta.lines]
    /\ copied' = Len(tmpMeta.lines)
    /\ proc' = [proc EXCEPT !.pc = "copied"]
    /\ last' = NoCall
    /\ UNCHANGED <<fs, faissFile, inst, status, now, handlerLast, log, tmpMeta>>

\* _append_meta, line 223, and the return of index_file
RemoveTmp ==
    /\ proc.pc = "copied"
    /\ tmpMeta' = NoLines
    /\ copied' = 0
    /\ proc' = Idle
    /\ last' = CallRecord("index_file", proc.path,
                          Outcome(inst["service"], faissFile, metaFile,
                                  Len(proc.metas), proc.deleted, FALSE),
                          <<>>, NoCall, FALSE)
    /\ UNCHANGED <<fs, faissFile, metaFile, inst, status, now, handlerLast, log>>

\* the process dies in the middle of a call: the files stay, the objects of
\* the next process are new
Crash ==
    /\ proc # Idle
    /\ proc' = Idle
    /\ inst' = [i \in Instances |-> NewRAGIndex]
    /\ last' = NoCall
    /\ UNCHANGED <<fs, faissFile, metaFile, status, now, handlerLast, log, tmpMeta, copied>>

StepNext ==
    \/ \E p \in UserPaths, v \in Versions : proc = Idle /\ WriteFile(p, v)
    \/ \E p \in Paths : BeginIndexFile(p)
    \/ \E ok \in BOOLEAN : EmbedStep(ok)
    \/ PersistStep
    \/ WriteTmp
    \/ CopyTmp
    \/ RemoveTmp
    \/ Crash

SpecSteps == Init /\ [][StepNext]_vars

\* the hashes of the entries the call in progress is adding
NewSet == {proc.metas[i].text_hash : i \in DOMAIN proc.metas}

\* C24: at every point of a call re-indexing a path, a search finds for that
\* path either all the entries that were active before the call or all the
\* entries the call adds, never neither
C24_Snapshot ==
    proc # Idle => Visible(proc.path) \in {proc.before, NewSet}

\* C26: in every state of a call, and after a crash at any of its points, the
\* id of every entry of the sidecar is smaller than the number of rows of the
\* persisted vector file
C26_VectorBeforeMeta ==
    \A i \in DOMAIN Lines : Lines[i].id < Len(faissFile.rows)

\* a re-indexing call has persisted its vectors and not yet written its
\* entries, with entries of earlier calls in the sidecar
C26_Witness ==
    /\ proc.pc = "persisted"
    /\ Len(Lines) > 0
    /\ \A i \in DOMAIN proc.metas : proc.metas[i].id < Len(faissFile.rows)
    /\ Len(faissFile.rows) > Len(Lines)

\* C29: with crashes inside _append_meta and calls resuming afterwards, the
\* copy into the sidecar never writes a line that an earlier copy has written
C29_AppendOnce ==
    [][(proc.pc = "tmp_written" /\ proc'.pc = "copied") => copied = 0]_vars

----------------------------------------------------------------------------
(* A file saved again and again: every save leaves the rows of the version
   before it in the vector file *)

\* the rows the saves may leave
OrphanRows == 6

\* versions of one chunk each
ShortVersions ==
    { [exists |-> TRUE, chunks |-> <<Chunk(0, "c")>>, mtime |-> 1],
      [exists |-> TRUE, chunks |-> <<Chunk(0, "a b")>>, mtime |-> 2] }

OrphanStep ==
    \E p \in UserPaths, v \in ShortVersions : SaveAndIndex(p, v, TRUE, OrphanRows)

SpecOrphans == Init /\ [][OrphanStep]_vars

\* the entries that are not deleted and pass the filters of a, the fallback
\* of the path hint included: the metas list of search
ActivePassing(a) ==
    SearchMetas(metaFile, a.folder, a.time_from, a.time_to, a.prefilter_paths)

\* C30: whatever rows of soft-deleted entries re-indexing has left in the
\* vector file, a search that reaches the vector search returns exactly
\* min(k, number of active entries passing its filters) hits
C30_LiveNotHidden ==
    \A a \in SearchArgs :
        ReachesVectorSearch(a) =>
            Len(SearchNow(a)) =
                (IF a.k < Len(ActivePassing(a)) THEN a.k ELSE Len(ActivePassing(a)))

====
